---- MODULE Spec2Model ----
(***************************************************************************)
(* CosmiFill: the sandboxed execution and tool-mediation layer.            *)
(*                                                                         *)
(* SecureSandbox and SandboxManager (main/pdf/data-extractor.ts, lines     *)
(* 426-645) as a state machine.  A string is a sequence of atoms: a        *)
(* separator "/", a dot ".", or a run of other characters that no          *)
(* operation of the program splits ("tmp", "cosmifill_"; session ids are   *)
(* spelt character by character).  path.join, path.resolve, path.extname   *)
(* and String.startsWith are computed over these sequences as Node         *)
(* computes them over characters.                                          *)
(*                                                                         *)
(* The specifications of the module:                                      *)
(*   FsSpec  the file operations of one sandbox (readFile, writeFile,      *)
(*           copyFiles) over a small host filesystem with a symlink;       *)
(*   Spec    the manager, the process registry, the spawned processes and  *)
(*           their timers and events;                                      *)
(*   MgrSpec the calls of the manager (createSandbox, destroySandbox,      *)
(*           destroyAllSandboxes) from one await to the next;              *)
(*   EditSpec SecureToolHandler.handleEdit (main/security/secure-tools.ts) *)
(*           over the files of one sandbox;                                *)
(*   FairSpec Spec with the event loop's delivery of timers and events;    *)
(*   EnvSpec the commands spawned under different host environments;       *)
(*   RwSpec  readFile while writeFile is in progress, block by block;      *)
(*   ToolSpec the 'secure-tool' requests next to destroySandbox.           *)
(***************************************************************************)
EXTENDS Integers, Sequences, FiniteSets, TLC

VARIABLES
    \* ---- filesystem part (FsSpec)
    files,      \* host filesystem: real path -> content, regular files only
    dirs,       \* host filesystem: the set of real directories
    links,      \* host filesystem: symlinks, a set of [link, target]
    fsLast,     \* the last file operation of the sandbox and how it ended
    fsOps,      \* the number of file operations so far
    \* ---- manager and process part (Spec)
    boxes,      \* the SecureSandbox instances created so far, in order
    sandboxes,  \* SandboxManager.sandboxes: session id -> instance, 0 if absent
    processes,  \* SecureSandbox.processes: instance -> the process ids it holds
    inv,        \* the executeCommand invocations that spawned, by process id
    destroys,   \* the destroySandbox calls suspended in cleanup's fs.rm
    lastExec,   \* the last executeCommand call and how it started
    \* ---- manager calls step by step (MgrSpec)
    order,      \* SandboxManager.sandboxes: the keys in insertion order
    calls       \* the calls suspended at an await, and those that returned

fsVars == <<files, dirs, links, fsLast, fsOps>>
procVars == <<boxes, sandboxes, processes, inv, destroys, lastExec, order, calls>>
vars == <<fsVars, procVars>>

(***************************************************************************)
(* Strings                                                                 *)
(***************************************************************************)

Slash == "/"
Dot == "."

Last(s) == s[Len(s)]

\* String.prototype.startsWith
StartsWith(s, prefix) ==
    /\ Len(prefix) <= Len(s)
    /\ SubSeq(s, 1, Len(prefix)) = prefix

\* String.prototype.toLowerCase, on the letters the model uses
LowerChar(c) ==
    CASE c = "PDF" -> "pdf"
      [] c = "C" -> "c"
      [] OTHER -> c

ToLowerCase(s) == [i \in 1..Len(s) |-> LowerChar(s[i])]

\* the segments of a path between its separators, empty ones included
RECURSIVE SplitFrom(_, _, _)
SplitFrom(s, cur, acc) ==
    IF s = <<>> THEN Append(acc, cur)
    ELSE IF Head(s) = Slash
    THEN SplitFrom(Tail(s), <<>>, Append(acc, cur))
    ELSE SplitFrom(Tail(s), Append(cur, Head(s)), acc)

Segments(s) == SplitFrom(s, <<>>, <<>>)

\* the segments joined by separators
RECURSIVE Unsplit(_)
Unsplit(segs) ==
    IF segs = <<>> THEN <<>>
    ELSE IF Len(segs) = 1 THEN Head(segs)
    ELSE Head(segs) \o <<Slash>> \o Unsplit(Tail(segs))

IsAbsolute(p) == Len(p) > 0 /\ Head(p) = Slash

DotDot == <<Dot, Dot>>

\* node:path normalizeString: drops empty and "." segments and resolves ".."
RECURSIVE NormalizeSegs(_, _, _)
NormalizeSegs(segs, acc, allowAboveRoot) ==
    IF segs = <<>> THEN acc
    ELSE LET seg == Head(segs)
             rest == Tail(segs)
         IN  IF seg = <<>> \/ seg = <<Dot>>
             THEN NormalizeSegs(rest, acc, allowAboveRoot)
             ELSE IF seg = DotDot
             THEN IF Len(acc) > 0 /\ Last(acc) # DotDot
                  THEN NormalizeSegs(rest, SubSeq(acc, 1, Len(acc) - 1), allowAboveRoot)
                  ELSE IF allowAboveRoot
                       THEN NormalizeSegs(rest, Append(acc, DotDot), allowAboveRoot)
                       ELSE NormalizeSegs(rest, acc, allowAboveRoot)
             ELSE NormalizeSegs(rest, Append(acc, seg), allowAboveRoot)

\* path.normalize (posix)
Normalize(p) ==
    IF p = <<>> THEN <<Dot>>
    ELSE LET abs == IsAbsolute(p)
             trailing == Last(p) = Slash
             body == Unsplit(NormalizeSegs(Segments(p), <<>>, ~abs))
         IN  IF body = <<>>
             THEN IF abs THEN <<Slash>>
                  ELSE IF trailing THEN <<Dot, Slash>> ELSE <<Dot>>
             ELSE (IF abs THEN <<Slash>> ELSE <<>>) \o body
                  \o (IF trailing THEN <<Slash>> ELSE <<>>)

\* path.join(a, b)
Join(a, b) ==
    IF a = <<>> /\ b = <<>> THEN <<Dot>>
    ELSE IF a = <<>> THEN Normalize(b)
    ELSE IF b = <<>> THEN Normalize(a)
    ELSE Normalize(a \o <<Slash>> \o b)

\* path.resolve(from, to), from an absolute path
Resolve(from, to) ==
    LET joined == IF IsAbsolute(to) THEN to
                  ELSE IF to = <<>> THEN from
                  ELSE from \o <<Slash>> \o to
    IN  <<Slash>> \o Unsplit(NormalizeSegs(Segments(joined), <<>>, FALSE))

\* the last non-empty segment of a path (trailing separators ignored)
RECURSIVE LastSegment(_)
LastSegment(segs) ==
    IF segs = <<>> THEN <<>>
    ELSE IF Last(segs) # <<>> THEN Last(segs)
    ELSE LastSegment(SubSeq(segs, 1, Len(segs) - 1))

\* path.extname (posix)
Extname(p) ==
    LET base == LastSegment(Segments(p))
        dots == {i \in 1..Len(base) : base[i] = Dot}
    IN  IF dots = {} THEN <<>>
        ELSE LET k == CHOOSE i \in dots : \A j \in dots : j <= i
             IN  IF k = 1 \/ base = DotDot THEN <<>>
                 ELSE SubSeq(base, k, Len(base))

\* path.dirname (posix), of an absolute normalized path
Dirname(p) ==
    LET segs == NormalizeSegs(Segments(p), <<>>, FALSE)
    IN  IF Len(segs) <= 1 THEN <<Slash>>
        ELSE <<Slash>> \o Unsplit(SubSeq(segs, 1, Len(segs) - 1))

(***************************************************************************)
(* The session and its root                                                *)
(***************************************************************************)

\* os.tmpdir()
TmpDir == <<"/", "tmp">>

\* the directory name's prefix, `cosmifill_${sessionId}`
DirPrefix == <<"cosmifill_">>

\* SandboxManager.createSandbox: the session's working directory
WorkDirOf(sessionId) == Join(TmpDir, DirPrefix \o sessionId)

\* the session whose file operations FsSpec follows, and a second session
\* whose id extends the first one's
SidA == <<"s", "1">>
SidB == <<"s", "1", "e">>

RootA == WorkDirOf(SidA)
RootB == WorkDirOf(SidB)

\* SandboxConfig.allowedPaths as createSandbox sets it
AllowedPaths(workDir) == {workDir}

\* SecureSandbox.validatePath
ValidatePath(workDir, requestedPath) ==
    LET resolved == Resolve(workDir, requestedPath)
    IN  \E allowedPath \in AllowedPaths(workDir) : StartsWith(resolved, allowedPath)

\* SecureSandbox.writeFile: allowedExtensions
AllowedExtensions ==
    { <<".", "pdf">>, <<".", "json">>, <<".", "txt">>, <<".", "py">>, <<".", "log">> }

(***************************************************************************)
(* The host filesystem as node:fs/promises sees it                         *)
(***************************************************************************)

EtcDir == <<"/", "etc">>
EtcPasswd == EtcDir \o <<"/", "passwd">>
HostDir == <<"/", "h">>
HostFile == HostDir \o <<"/", "f", ".", "pdf">>

\* the symlink a python process running in the session root can plant there
LinkName == <<"l">>
PlantedLink == [link |-> RootA \o <<Slash>> \o LinkName, target |-> EtcDir]

\* the path the kernel reaches from an absolute path: the segments are walked
\* from the root and a symlink met on the way is replaced by its target
RECURSIVE Walk(_, _)
Walk(segs, cur) ==
    IF segs = <<>> THEN cur
    ELSE LET next == cur \o <<Slash>> \o Head(segs)
             hop == IF \E l \in links : l.link = next
                    THEN (CHOOSE l \in links : l.link = next).target
                    ELSE next
         IN  Walk(Tail(segs), hop)

RealPath(p) ==
    LET segs == NormalizeSegs(Segments(p), <<>>, FALSE)
    IN  IF segs = <<>> THEN <<Slash>> ELSE Walk(segs, <<>>)

\* a path and all the directories above it
RECURSIVE Ancestors(_)
Ancestors(p) ==
    IF p = <<Slash>> THEN {p} ELSE {p} \cup Ancestors(Dirname(p))

NamesDirectory(p) == Len(p) > 1 /\ Last(p) = Slash

\* fs.readFile(fullPath, 'utf-8'): the outcome and the content read
FsRead(fullPath) ==
    LET real == RealPath(fullPath)
    IN  IF real \in dirs THEN [result |-> "FsError", content |-> "", real |-> real]
        ELSE IF real \in DOMAIN files /\ ~NamesDirectory(fullPath)
        THEN [result |-> "ok", content |-> files[real], real |-> real]
        ELSE [result |-> "NotFound", content |-> "", real |-> real]

\* fs.writeFile(fullPath, content): the outcome and the files afterwards; the
\* file is created or truncated, its directory is not created
FsWrite(fs, ds, fullPath, content) ==
    LET real == RealPath(fullPath)
    IN  IF real \in ds \/ NamesDirectory(fullPath)
        THEN [result |-> "FsError", files |-> fs, real |-> real]
        ELSE IF Dirname(real) \notin ds
        THEN [result |-> "NotFound", files |-> fs, real |-> real]
        ELSE [result |-> "ok", real |-> real,
              files |-> [x \in DOMAIN fs \cup {real} |->
                            IF x = real THEN content ELSE fs[x]]]

\* fs.mkdir(dir, { recursive: true }): the directories afterwards
FsMkdirP(fs, ds, dir) ==
    LET real == RealPath(dir)
    IN  IF Ancestors(real) \cap DOMAIN fs # {}
        THEN [result |-> "FsError", dirs |-> ds, real |-> real]
        ELSE [result |-> "ok", dirs |-> ds \cup Ancestors(real), real |-> real]

\* fs.copyFile(source, destPath)
FsCopy(fs, ds, source, destPath) ==
    LET from == RealPath(source)
    IN  IF from \notin DOMAIN fs
        THEN [result |-> "NotFound", files |-> fs, real |-> RealPath(destPath)]
        ELSE FsWrite(fs, ds, destPath, fs[from])

(***************************************************************************)
(* SecureSandbox: readFile, writeFile, copyFiles                           *)
(***************************************************************************)

\* p is root or below it, by whole path segments
SegInside(root, p) == p = root \/ StartsWith(p, root \o <<Slash>>)

\* the path goes through a symlink whose target is outside the root
ThroughOutsideLink(root, fullPath) ==
    \E l \in links : SegInside(l.link, fullPath) /\ ~SegInside(root, l.target)

NoOp ==
    [op |-> "none", sid |-> <<>>, req |-> <<>>, full |-> <<>>, touched |-> {},
     result |-> "none", content |-> "", accessed |-> FALSE, changed |-> FALSE,
     viaLink |-> FALSE, audit |-> 0, copied |-> 0,
     old |-> <<>>, new |-> <<>>, before |-> <<>>]

\* SecureSandbox.readFile: the call and how it ends
ReadOutcome(sid, filePath) ==
    LET workDir == WorkDirOf(sid)
        fullPath == Join(workDir, filePath)
        r == FsRead(fullPath)
        call == [NoOp EXCEPT !.op = "read", !.sid = sid, !.req = filePath,
                             !.full = fullPath,
                             !.viaLink = ThroughOutsideLink(workDir, fullPath)]
    IN  IF ~ValidatePath(workDir, fullPath)
        THEN [call EXCEPT !.result = "AccessDenied", !.audit = 1]
        ELSE [call EXCEPT !.result = r.result, !.content = r.content,
                          !.touched = {r.real}, !.accessed = TRUE]

\* SecureSandbox.readFile
ReadFile(sid, filePath) ==
    /\ fsLast' = ReadOutcome(sid, filePath)
    /\ UNCHANGED <<files, dirs, links>>

\* SecureSandbox.writeFile: the call, how it ends and the files afterwards
WriteOutcome(sid, filePath, content) ==
    LET workDir == WorkDirOf(sid)
        fullPath == Join(workDir, filePath)
        ext == ToLowerCase(Extname(filePath))
        w == FsWrite(files, dirs, fullPath, content)
        call == [NoOp EXCEPT !.op = "write", !.sid = sid, !.req = filePath,
                             !.full = fullPath, !.content = content,
                             !.viaLink = ThroughOutsideLink(workDir, fullPath)]
    IN  IF ~ValidatePath(workDir, fullPath)
        THEN [last |-> [call EXCEPT !.result = "AccessDenied"], files |-> files]
        ELSE IF ext \notin AllowedExtensions
        THEN [last |-> [call EXCEPT !.result = "TypeNotAllowed"], files |-> files]
        ELSE [last |-> [call EXCEPT !.result = w.result, !.touched = {w.real},
                                    !.accessed = TRUE,
                                    !.changed = (w.files # files)],
              files |-> w.files]

\* SecureSandbox.writeFile
WriteFile(sid, filePath, content) ==
    /\ files' = WriteOutcome(sid, filePath, content).files
    /\ fsLast' = WriteOutcome(sid, filePath, content).last
    /\ UNCHANGED <<dirs, links>>

\* SecureSandbox.copyFiles: the loop over the pairs, from the files fs and the
\* directories ds, n pairs copied so far
RECURSIVE CopyLoop(_, _, _, _, _, _)
CopyLoop(workDir, list, fs, ds, n, touched) ==
    IF list = <<>>
    THEN [result |-> "ok", files |-> fs, dirs |-> ds, copied |-> n, touched |-> touched]
    ELSE LET destPath == Join(workDir, Head(list).destination)
             m == FsMkdirP(fs, ds, Dirname(destPath))
             c == FsCopy(fs, m.dirs, Head(list).source, destPath)
         IN  IF ~ValidatePath(workDir, destPath)
             THEN [result |-> "AccessDenied", files |-> fs, dirs |-> ds,
                   copied |-> n, touched |-> touched]
             ELSE IF m.result # "ok"
             THEN [result |-> m.result, files |-> fs, dirs |-> ds,
                   copied |-> n, touched |-> touched \cup {m.real}]
             ELSE IF c.result # "ok"
             THEN [result |-> c.result, files |-> fs, dirs |-> m.dirs,
                   copied |-> n, touched |-> touched \cup {m.real, c.real}]
             ELSE CopyLoop(workDir, Tail(list), c.files, m.dirs, n + 1,
                           touched \cup {m.real, c.real})

CopyFiles(sid, list) ==
    LET workDir == WorkDirOf(sid)
        r == CopyLoop(workDir, list, files, dirs, 0, {})
    IN  /\ files' = r.files
        /\ dirs' = r.dirs
        /\ fsLast' = [NoOp EXCEPT !.op = "copy", !.sid = sid, !.req = list,
                                  !.result = r.result, !.touched = r.touched,
                                  !.accessed = (r.touched # {}),
                                  !.changed = (r.files # files \/ r.dirs # dirs),
                                  !.copied = r.copied,
                                  !.viaLink = \E i \in 1..Len(list) :
                                      ThroughOutsideLink(workDir,
                                          Join(workDir, list[i].destination))]
        /\ UNCHANGED links

\* a python process spawned in the session root plants a symlink there
PlantSymlink ==
    /\ PlantedLink \notin links
    /\ PlantedLink.link \notin dirs \cup DOMAIN files
    /\ links' = links \cup {PlantedLink}
    /\ UNCHANGED <<files, dirs, fsLast, fsOps, procVars>>

(***************************************************************************)
(* SecureToolHandler.handleEdit                                            *)
(***************************************************************************)

\* String.prototype.indexOf, counted from 1; 0 when t does not occur in s
IndexOf(s, t) ==
    LET hits == {i \in 1..(Len(s) - Len(t) + 1) : SubSeq(s, i, i + Len(t) - 1) = t}
    IN  IF hits = {} THEN 0 ELSE CHOOSE i \in hits : \A j \in hits : i <= j

\* an includes that finds everything: what C17 rests on
IncludesAnything(s, t) == TRUE

\* String.prototype.includes
Includes(s, t) == IndexOf(s, t) # 0

\* GetSubstitution of String.prototype.replace for a string pattern: in the
\* replacement $$ stands for $, $& for the match, $` and $' for the text
\* before and after it; any other $ is kept
RECURSIVE GetSubstitution(_, _, _, _)
GetSubstitution(matched, before, after, replacement) ==
    IF replacement = <<>> THEN <<>>
    ELSE IF Head(replacement) = "$" /\ Len(replacement) >= 2
                /\ replacement[2] \in {"$", "&", "`", "'"}
    THEN (CASE replacement[2] = "$" -> <<"$">>
            [] replacement[2] = "&" -> matched
            [] replacement[2] = "`" -> before
            [] replacement[2] = "'" -> after)
         \o GetSubstitution(matched, before, after, Tail(Tail(replacement)))
    ELSE <<Head(replacement)>>
         \o GetSubstitution(matched, before, after, Tail(replacement))

\* String.prototype.replace(t, replacement) with a string t: the first
\* occurrence only
StringReplace(s, t, replacement) ==
    LET i == IndexOf(s, t)
        before == SubSeq(s, 1, i - 1)
        after == SubSeq(s, i + Len(t), Len(s))
    IN  IF i = 0 THEN s
        ELSE before \o GetSubstitution(t, before, after, replacement) \o after

\* SecureToolHandler.handleEdit
HandleEdit(sid, filePath, oldContent, newContent) ==
    LET r == ReadOutcome(sid, filePath)
        updatedContent == StringReplace(r.content, oldContent, newContent)
        w == WriteOutcome(sid, filePath, updatedContent)
        call == [r EXCEPT !.op = "edit", !.old = oldContent, !.new = newContent,
                          !.content = <<>>]
    IN  /\ IF r.result # "ok"
           THEN fsLast' = call /\ UNCHANGED files
           ELSE IF ~Includes(r.content, oldContent)
           THEN /\ fsLast' = [call EXCEPT !.result = "ContentNotFound",
                                          !.before = r.content]
                /\ UNCHANGED files
           ELSE /\ fsLast' = [call EXCEPT !.result = w.last.result,
                                          !.before = r.content,
                                          !.content = updatedContent,
                                          !.touched = @ \cup w.last.touched,
                                          !.changed = w.last.changed]
                /\ files' = w.files
        /\ UNCHANGED <<dirs, links>>

(***************************************************************************)
(* SecureSandbox.executeCommand: the spawned process, its timers and       *)
(* events                                                                  *)
(***************************************************************************)

\* the session ids given to createSandbox
Sids == {SidA, SidB}

\* the SecureSandbox instances ever created
MaxBoxes == 2

\* the processes ever spawned
MaxInv == 2

BoxIds == 1..MaxBoxes

\* a whitelist that lets rm through: what C4 rests on
AllowedCommandsAndRm == {"ls", "pwd", "echo", "python", "python3", "rm"}

\* SecureSandbox.executeCommand: allowedCommands
AllowedCommands == {"ls", "pwd", "echo", "python", "python3"}

\* the commands given to executeCommand
Commands == {"python3", "rm"}

\* SandboxManager.createSandbox: timeout (milliseconds)
DefaultTimeout == 30000

\* a Promise that every resolve or reject would settle anew: what C6 rests on
SettleAgain(outcome, new) == new

\* a Promise is settled by the first resolve or reject only
Settle(outcome, new) == IF outcome = "pending" THEN new ELSE outcome

\* child.on('close'): the outcome from the exit code
CloseOutcome(os) == IF os = "exit0" THEN "Completed" ELSE "Failed"

Running(i) == inv[i].os = "running"

\* child.kill(): SIGTERM reaches a process that is still running
Kill(rec) == IF rec.os = "running" THEN [rec EXCEPT !.sig = TRUE] ELSE rec

\* a delete that empties the instance's registry: what C24 rests on
DeleteAll(i) == [processes EXCEPT ![inv[i].box] = {}]

\* a delete that leaves the entry in the registry: what C23 rests on
KeepEntry(i) == processes

\* this.processes.delete(processId)
Delete(i) == [processes EXCEPT ![inv[i].box] = @ \ {i}]

\* process.env of the host application when a command is spawned: none but
\* the first appears in Spec and MgrSpec
HostEnv0 == ("HOME" :> <<"/", "root">>) @@ ("PATH" :> <<"/", "usr", "/", "local", "/", "bin">>)
HostEnvs ==
    { HostEnv0,
      ("HOME" :> <<"/", "root">>) @@ ("PATH" :> <<"/", "opt", "/", "bin">>)
          @@ ("API_KEY" :> <<"k">>),
      [x \in {} |-> <<>>] }

\* an environment that starts from the host's: what C27 rests on
SpawnEnvInherit(workDir, hostEnv) ==
    ("HOME" :> workDir) @@ ("PYTHONPATH" :> Join(workDir, <<"modules">>)) @@ hostEnv

\* executeCommand: env, which spawn takes in place of process.env
SpawnEnv(workDir, hostEnv) ==
    ("HOME" :> workDir) @@ ("PATH" :> <<"/", "usr", "/", "bin", ":", "/", "bin">>)
        @@ ("PYTHONPATH" :> Join(workDir, <<"modules">>))

\* the child and the callbacks executeCommand sets up
NewProcess(b, command, started, hostEnv) ==
    [box |-> b, command |-> command,
     cwd |-> boxes[b].workDir, env |-> SpawnEnv(boxes[b].workDir, hostEnv),
     host |-> hostEnv,
     os |-> IF started THEN "running" ELSE "failed",
     sig |-> FALSE, late |-> FALSE,
     timer |-> TRUE, spawnTimer |-> TRUE, event |-> "none", outcome |-> "pending"]

\* SecureSandbox.executeCommand up to the return of the Promise; the spawn
\* succeeds or fails (the failure is reported later by the 'error' event)
ExecuteCommand(b, command, started, hostEnv) ==
    /\ b \in 1..Len(boxes)
    /\ sandboxes[boxes[b].sessionId] = b
    /\ IF command \notin AllowedCommands
       THEN /\ lastExec' = [command |-> command, result |-> "CommandBlocked"]
            /\ UNCHANGED <<inv, processes>>
       ELSE /\ Len(inv) < MaxInv
            /\ inv' = Append(inv, NewProcess(b, command, started, hostEnv))
            /\ processes' = [processes EXCEPT ![b] = @ \cup {Len(inv) + 1}]
            /\ lastExec' = [command |-> command, result |-> "spawned"]
    /\ UNCHANGED <<boxes, sandboxes, destroys, order, calls, fsVars>>

OnlyInv == UNCHANGED <<boxes, sandboxes, destroys, lastExec, order, calls, fsVars>>

\* A timer's callback runs when its delay (the session's timeout, the same for
\* both timers of an invocation) has passed: the deadline has passed by the
\* time either runs, and the process was alive at the deadline if it is alive
\* then
Deadline(rec) == [rec EXCEPT !.late = @ \/ rec.os = "running"]

\* The 'error' event of a failed spawn is emitted on the next tick, before any
\* timer of the invocation can be due
Due(i) == inv[i].os = "failed" => inv[i].event # "none"

\* spawn's timeout option: Node kills the child when the time is up
SpawnTimeout(i) ==
    /\ inv[i].spawnTimer /\ Due(i)
    /\ inv' = [inv EXCEPT ![i] = [Kill(Deadline(@)) EXCEPT !.spawnTimer = FALSE]]
    /\ UNCHANGED processes
    /\ OnlyInv

\* the callback given to setTimeout
Timeout(i) ==
    /\ inv[i].timer /\ Due(i)
    /\ IF i \in processes[inv[i].box]
       THEN /\ inv' = [inv EXCEPT ![i] =
                         [Kill(Deadline(@)) EXCEPT !.timer = FALSE,
                                                   !.outcome = Settle(@, "TimedOut")]]
            /\ processes' = Delete(i)
       ELSE /\ inv' = [inv EXCEPT ![i] = [Deadline(@) EXCEPT !.timer = FALSE]]
            /\ UNCHANGED processes
    /\ OnlyInv

\* the process ends, by itself or by a signal sent to it: with code 0
\* ("exit0"), or with another code or none ("exit1"); Node clears the timer of
\* spawn's timeout option
ProcExit(i, how) ==
    /\ Running(i)
    /\ inv' = [inv EXCEPT ![i].os = how, ![i].sig = FALSE, ![i].spawnTimer = FALSE]
    /\ UNCHANGED processes
    /\ OnlyInv

\* child.on('error'): the spawn failed
ErrorEvent(i) ==
    /\ inv[i].os = "failed" /\ inv[i].event = "none"
    /\ inv' = [inv EXCEPT ![i].event = "error",
                          ![i].outcome = Settle(@, "SpawnError")]
    /\ processes' = Delete(i)
    /\ OnlyInv

\* child.on('close'): after the exit, or after the 'error' of a failed spawn
CloseEvent(i) ==
    /\ \/ inv[i].os \in {"exit0", "exit1"} /\ inv[i].event = "none"
       \/ inv[i].os = "failed" /\ inv[i].event = "error"
    /\ inv' = [inv EXCEPT ![i].event = "close",
                          ![i].outcome = Settle(@, CloseOutcome(inv[i].os))]
    /\ processes' = Delete(i)
    /\ OnlyInv

(***************************************************************************)
(* SecureSandbox.cleanup and SandboxManager                                *)
(***************************************************************************)

\* a new SecureSandbox as createSandbox configures it
NewBox(sid) == [sessionId |-> sid, workDir |-> WorkDirOf(sid), timeout |-> DefaultTimeout]

\* the slot a deleted entry leaves in the Map's list of entries
Gone == <<>>

\* Map.prototype.set: a new key goes to the end, a key that is present keeps
\* its place
MapSet(sid, b) ==
    /\ sandboxes' = [sandboxes EXCEPT ![sid] = b]
    /\ order' = IF sandboxes[sid] # 0 THEN order ELSE Append(order, sid)

\* a delete that empties the Map: what C12 rests on
MapDeleteEvery(sid) ==
    /\ sandboxes' = [x \in Sids |-> 0]
    /\ order' = [p \in DOMAIN order |-> <<>>]

\* Map.prototype.delete
MapDelete(sid) ==
    /\ sandboxes' = [sandboxes EXCEPT ![sid] = 0]
    /\ order' = [p \in DOMAIN order |-> IF order[p] = sid THEN Gone ELSE order[p]]

\* Map.prototype.clear
MapClear ==
    /\ sandboxes' = [sid \in Sids |-> 0]
    /\ order' = [p \in DOMAIN order |-> Gone]

\* the manager calls followed
MaxCalls == 2

\* the createSandbox calls that wait for fs.mkdir
Creating == {k \in DOMAIN calls : calls[k].op = "create" /\ calls[k].phase = "mkdir"}

\* SandboxManager.createSandbox up to the await: fs.mkdir makes the directory
CreateSandbox(sid) ==
    /\ Len(calls) < MaxCalls
    /\ Len(boxes) + Cardinality(Creating) < MaxBoxes
    /\ dirs' = dirs \cup Ancestors(WorkDirOf(sid))
    /\ calls' = Append(calls, [op |-> "create", sid |-> sid, box |-> 0,
                               phase |-> "mkdir", pos |-> 0])
    /\ UNCHANGED <<boxes, sandboxes, order, processes, inv, destroys, lastExec,
                   files, links, fsLast, fsOps>>

\* SandboxManager.createSandbox after the await: the new SecureSandbox is
\* registered and returned
CreateResume(k) ==
    /\ k \in Creating
    /\ boxes' = Append(boxes, NewBox(calls[k].sid))
    /\ MapSet(calls[k].sid, Len(boxes) + 1)
    /\ calls' = [calls EXCEPT ![k].phase = "done", ![k].box = Len(boxes) + 1]
    /\ UNCHANGED <<processes, inv, destroys, lastExec, fsVars>>

\* a cleanup that kills every process of the session, whichever instance
\* spawned it: what C22 rests on
CleanupKillSession(b) ==
    [i \in 1..Len(inv) |->
        IF boxes[inv[i].box].sessionId = boxes[b].sessionId THEN Kill(inv[i]) ELSE inv[i]]

\* SecureSandbox.cleanup, the loop: child.kill() for every registered process
CleanupKill(b) ==
    [i \in 1..Len(inv) |-> IF i \in processes[b] THEN Kill(inv[i]) ELSE inv[i]]

\* SecureSandbox.cleanup, the loop: this.processes.delete(id) for every one
CleanupClear(b) == [processes EXCEPT ![b] = {}]

\* SandboxManager.destroySandbox up to cleanup's await of fs.rm
DestroySandbox(sid) ==
    /\ sandboxes[sid] # 0
    /\ LET b == sandboxes[sid]
       IN  /\ inv' = CleanupKill(b)
           /\ processes' = CleanupClear(b)
           /\ destroys' = destroys \cup {[sid |-> sid, box |-> b]}
    /\ UNCHANGED <<boxes, sandboxes, lastExec, order, calls, fsVars>>

\* fs.rm(workDir, { recursive: true, force: true })
FsRm(paths, workDir) == {p \in paths : ~SegInside(workDir, p)}

\* a cleanup that lets the error of fs.rm through: what C10 rests on
CleanupRethrows(rmOk) == rmOk

\* whether destroySandbox goes on after cleanup when fs.rm failed: cleanup
\* catches the error
CleanupReturns(rmOk) == TRUE

\* fs.rm ends, cleanup returns and destroySandbox deletes the session
DestroyDone(d, rmOk) ==
    /\ d \in destroys
    /\ destroys' = destroys \ {d}
    /\ IF rmOk
       THEN /\ dirs' = FsRm(dirs, boxes[d.box].workDir)
            /\ files' = [p \in FsRm(DOMAIN files, boxes[d.box].workDir) |-> files[p]]
       ELSE UNCHANGED <<dirs, files>>
    /\ IF CleanupReturns(rmOk)
       THEN MapDelete(d.sid)
       ELSE UNCHANGED <<sandboxes, order>>
    /\ UNCHANGED <<boxes, processes, inv, lastExec, calls, links, fsLast, fsOps>>

\* SandboxManager.destroySandbox as a call of its own, up to cleanup's await
\* of fs.rm; for a session that is not registered it returns at once
DestroySandboxCall(sid) ==
    /\ Len(calls) < MaxCalls
    /\ LET b == sandboxes[sid]
           call == [op |-> "destroy", sid |-> sid, box |-> b,
                    phase |-> IF b = 0 THEN "done" ELSE "rm", pos |-> 0]
       IN  /\ calls' = Append(calls, call)
           /\ IF b = 0
              THEN UNCHANGED <<inv, processes>>
              ELSE inv' = CleanupKill(b) /\ processes' = CleanupClear(b)
    /\ UNCHANGED <<boxes, sandboxes, order, destroys, lastExec, fsVars>>

\* fs.rm of a cleanup ends: the root is removed, or the removal failed and
\* cleanup catches the error ("thrown" if it did not)
RmEnd(k, rmOk) ==
    /\ k \in DOMAIN calls /\ calls[k].phase = "rm"
    /\ IF rmOk
       THEN /\ dirs' = FsRm(dirs, boxes[calls[k].box].workDir)
            /\ files' = [p \in FsRm(DOMAIN files, boxes[calls[k].box].workDir) |-> files[p]]
       ELSE UNCHANGED <<dirs, files>>
    /\ calls' = [calls EXCEPT ![k].phase =
                    IF rmOk THEN "rmOk"
                    ELSE IF CleanupReturns(rmOk) THEN "rmFailed" ELSE "thrown"]
    /\ UNCHANGED <<boxes, sandboxes, order, processes, inv, destroys, lastExec,
                   links, fsLast, fsOps>>

\* cleanup has returned to a call
Resumed(k) == k \in DOMAIN calls /\ calls[k].phase \in {"rmOk", "rmFailed"}

\* SandboxManager.destroySandbox after the await: sandboxes.delete
DestroySandboxResume(k) ==
    /\ Resumed(k) /\ calls[k].op = "destroy"
    /\ MapDelete(calls[k].sid)
    /\ calls' = [calls EXCEPT ![k].phase = "done"]
    /\ UNCHANGED <<boxes, processes, inv, destroys, lastExec, fsVars>>

\* the Map iterator of destroyAllSandboxes: the next entry after position pos
\* that has not been deleted, 0 when there is none
NextEntry(pos) ==
    LET later == {p \in DOMAIN order : p > pos /\ order[p] # Gone}
    IN  IF later = {} THEN 0 ELSE CHOOSE p \in later : \A q \in later : p <= q

\* SandboxManager.destroyAllSandboxes from position pos of its loop to the
\* next await, or past the loop to sandboxes.clear() and the return
DestroyAllFrom(pos) ==
    LET p == NextEntry(pos)
    IN  IF p = 0
        THEN [op |-> "destroyAll", sid |-> Gone, box |-> 0, phase |-> "done", pos |-> pos]
        ELSE [op |-> "destroyAll", sid |-> order[p], box |-> sandboxes[order[p]],
              phase |-> "rm", pos |-> p]

DestroyAllStep(call) ==
    /\ IF call.phase = "done"
       THEN MapClear /\ UNCHANGED <<inv, processes>>
       ELSE /\ inv' = CleanupKill(call.box)
            /\ processes' = CleanupClear(call.box)
            /\ UNCHANGED <<sandboxes, order>>
    /\ UNCHANGED <<boxes, destroys, lastExec, fsVars>>

\* SandboxManager.destroyAllSandboxes up to its first await
DestroyAllSandboxes ==
    /\ Len(calls) < MaxCalls
    /\ calls' = Append(calls, DestroyAllFrom(0))
    /\ DestroyAllStep(DestroyAllFrom(0))

\* SandboxManager.destroyAllSandboxes after an await
DestroyAllResume(k) ==
    /\ Resumed(k) /\ calls[k].op = "destroyAll"
    /\ calls' = [calls EXCEPT ![k] = DestroyAllFrom(calls[k].pos)]
    /\ DestroyAllStep(DestroyAllFrom(calls[k].pos))

(***************************************************************************)
(* Spec: the manager and the processes                                     *)
(***************************************************************************)

NoExec == [command |-> "", result |-> "none"]

\* the state after createSandbox(SidA) on a new manager
Init ==
    /\ dirs = {<<Slash>>, TmpDir, EtcDir, HostDir, RootA}
    /\ files = (EtcPasswd :> "secret") @@ (HostFile :> "pdf")
    /\ links = {}
    /\ fsLast = NoOp
    /\ fsOps = 0
    /\ boxes = <<NewBox(SidA)>>
    /\ sandboxes = [sid \in Sids |-> IF sid = SidA THEN 1 ELSE 0]
    /\ processes = [b \in BoxIds |-> {}]
    /\ inv = <<>>
    /\ destroys = {}
    /\ lastExec = NoExec
    /\ order = <<SidA>>
    /\ calls = <<>>

Execute == \E b \in BoxIds : \E c \in Commands : \E started \in BOOLEAN :
               ExecuteCommand(b, c, started, HostEnv0)
SpawnTimer == \E i \in 1..Len(inv) : SpawnTimeout(i)
Timer == \E i \in 1..Len(inv) : Timeout(i)
Exit == \E i \in 1..Len(inv) : \E how \in {"exit0", "exit1"} : ProcExit(i, how)
Error == \E i \in 1..Len(inv) : ErrorEvent(i)
Close == \E i \in 1..Len(inv) : CloseEvent(i)
Destroy == \E sid \in Sids : DestroySandbox(sid)
Destroyed == \E d \in destroys : \E rmOk \in BOOLEAN : DestroyDone(d, rmOk)

Next ==
    \/ Execute \/ SpawnTimer \/ Timer \/ Exit \/ Error
    \/ Close \/ Destroy \/ Destroyed

Spec == Init /\ [][Next]_vars

\* Spec with the event loop's scheduling: a timer that is due runs its
\* callback, and an 'error' or 'close' event that is due is delivered.
\* Nothing makes a process exit, whether or not a signal was sent to it.
Fairness ==
    \A i \in 1..MaxInv :
        /\ WF_vars(i \in DOMAIN inv /\ Timeout(i))
        /\ WF_vars(i \in DOMAIN inv /\ SpawnTimeout(i))
        /\ WF_vars(i \in DOMAIN inv /\ ErrorEvent(i))
        /\ WF_vars(i \in DOMAIN inv /\ CloseEvent(i))

FairSpec == Spec /\ Fairness

(***************************************************************************)
(* MgrSpec: the manager's calls from one await to the next                 *)
(***************************************************************************)

Create == \E sid \in Sids : CreateSandbox(sid)
Created == \E k \in DOMAIN calls : CreateResume(k)
DestroyOne == \E sid \in Sids : DestroySandboxCall(sid)
Removed == \E k \in DOMAIN calls : \E rmOk \in BOOLEAN : RmEnd(k, rmOk)
DestroyedOne == \E k \in DOMAIN calls : DestroySandboxResume(k)
DestroyAll == DestroyAllSandboxes
DestroyAllNext == \E k \in DOMAIN calls : DestroyAllResume(k)

\* an instance runs one command here, and the events after its exit are not
\* followed
Run == \E b \in BoxIds :
           /\ \A i \in 1..Len(inv) : inv[i].box # b
           /\ ExecuteCommand(b, "python3", TRUE, HostEnv0)

MgrNext ==
    \/ Create \/ Created \/ DestroyOne \/ Removed \/ DestroyedOne
    \/ DestroyAll \/ DestroyAllNext \/ Run \/ Exit

\* from the state after createSandbox(SidA), as Spec
MgrSpec == Init /\ [][MgrNext]_vars

(***************************************************************************)
(* EnvSpec: commands spawned under different environments of the host      *)
(***************************************************************************)

EnvExecute == \E c \in Commands : \E started \in BOOLEAN : \E h \in HostEnvs :
                  ExecuteCommand(1, c, started, h)

EnvNext == EnvExecute \/ Exit \/ Error \/ Close

EnvSpec == Init /\ [][EnvNext]_vars

\* C27: the spawn environment is independent of the host.  Every process
\* spawned runs in the session root with an environment of exactly HOME =
\* the root, PATH = /usr/bin:/bin and PYTHONPATH = <root>/modules; two
\* spawns of one session have the same environment whatever process.env
\* was at the time.
C27_SpawnEnvironment ==
    /\ \A i \in 1..Len(inv) :
          LET root == WorkDirOf(boxes[inv[i].box].sessionId)
          IN  /\ inv[i].cwd = root
              /\ DOMAIN inv[i].env = {"HOME", "PATH", "PYTHONPATH"}
              /\ inv[i].env["HOME"] = root
              /\ inv[i].env["PATH"] = <<"/", "usr", "/", "bin", ":", "/", "bin">>
              /\ inv[i].env["PYTHONPATH"] = root \o <<"/", "modules">>
    /\ \A i, j \in 1..Len(inv) :
          inv[i].box = inv[j].box => inv[i].env = inv[j].env

\* two processes were spawned in one session under host environments that
\* differ in PATH and in a variable only one of them has
C27_HostsDiffer ==
    \E i, j \in 1..Len(inv) :
        /\ inv[i].box = inv[j].box
        /\ "API_KEY" \in DOMAIN inv[i].host /\ "API_KEY" \notin DOMAIN inv[j].host
        /\ "PATH" \in DOMAIN inv[j].host /\ inv[i].host["PATH"] # inv[j].host["PATH"]
        /\ inv[i].os = "running" /\ inv[j].os = "running"

(***************************************************************************)
(* Claims about the manager's calls (checked under MgrSpec)                *)
(***************************************************************************)

\* C11: idempotent teardown.  No destroySandbox or cleanup raises an error;
\* destroySandbox of a session that is not registered (a second call, or an
\* id never registered) returns at once and changes nothing; the delete of
\* a second call changes nothing in the registry when the first has deleted
\* the session; a cleanup of a sandbox whose registry is empty and whose root
\* is removed leaves both as they are.
C11_IdempotentTeardown ==
    /\ [](\A k \in DOMAIN calls : calls[k].phase # "thrown")
    /\ [][\A k \in DOMAIN calls' :
             LET new == calls'[k]
                 started == k \notin DOMAIN calls
                 old == IF started THEN new ELSE calls[k]
             IN  /\ (started /\ new.op = "destroy" /\ sandboxes[new.sid] = 0) =>
                        /\ new.phase = "done"
                        /\ UNCHANGED <<sandboxes, order, boxes, processes, inv,
                                       dirs, files>>
                 /\ (~started /\ old.op = "destroy" /\ new.phase = "done"
                        /\ old.phase # "done" /\ sandboxes[old.sid] = 0) =>
                        UNCHANGED <<sandboxes, order>>
                 /\ (new.phase = "rm" /\ (started \/ old.phase # "rm")
                        /\ processes[new.box] = {}) =>
                        UNCHANGED <<processes, inv>>
                 /\ (~started /\ old.phase = "rm" /\ new.phase # "rm"
                        /\ boxes[old.box].workDir \notin dirs) =>
                        /\ UNCHANGED <<dirs, files>>
                        /\ new.phase \in {"rmOk", "rmFailed"}]_vars

\* destroySandbox(SidA) has run, cleanup included, and a second
\* destroySandbox(SidA) has returned at once
C11_SecondDestroy ==
    /\ Len(calls) = 2
    /\ calls[1] = [op |-> "destroy", sid |-> SidA, box |-> 1, phase |-> "done", pos |-> 0]
    /\ calls[2] = [op |-> "destroy", sid |-> SidA, box |-> 0, phase |-> "done", pos |-> 0]
    /\ sandboxes[SidA] = 0
    /\ RootA \notin dirs

Registered(b) == sandboxes[boxes[b].sessionId] = b

\* the instance b has a command whose process runs
InFlight(b) == \E i \in 1..Len(inv) : inv[i].box = b /\ inv[i].os = "running"

\* C13: no two sessions share a root directory.  Two distinct sandboxes that
\* are registered or have a command in flight have different roots.
C13_DistinctRoots ==
    \A b1 \in DOMAIN boxes : \A b2 \in DOMAIN boxes :
        (/\ b1 # b2
         /\ Registered(b1) \/ InFlight(b1)
         /\ Registered(b2) \/ InFlight(b2))
            => boxes[b1].workDir # boxes[b2].workDir

\* C14: root lifetime.  In every state, the steps inside destroySandbox and
\* destroyAllSandboxes included, the root of a sandbox that getSandbox
\* returns exists; and when a destroySandbox whose removal succeeded
\* completes, the root does not exist.
C14_RootLifetime ==
    /\ [](\A sid \in Sids :
             sandboxes[sid] # 0 => boxes[sandboxes[sid]].workDir \in dirs)
    /\ [][\A k \in DOMAIN calls :
             (/\ calls[k].op = "destroy"
              /\ calls[k].phase = "rmOk"
              /\ calls'[k].phase = "done")
                 => boxes[calls[k].box].workDir \notin dirs']_vars

\* C15: destroyAllSandboxes completeness.  When destroyAllSandboxes
\* completes, whatever createSandbox and executeCommand calls ran beside it,
\* no session is registered, the root of every sandbox is removed and no
\* process spawned by a sandbox is running.
C15_DestroyAllComplete ==
    [][\A k \in DOMAIN calls' :
          (/\ calls'[k].op = "destroyAll"
           /\ calls'[k].phase = "done"
           /\ k \in DOMAIN calls => calls[k].phase # "done")
              => /\ \A sid \in Sids : sandboxes'[sid] = 0
                 /\ \A b \in DOMAIN boxes' : boxes'[b].workDir \notin dirs'
                 /\ \A i \in 1..Len(inv') : inv'[i].os # "running"]_vars

\* the instance b is no longer the one registered for its session, and a
\* later createSandbox made another for the same session id
Replaced(b) ==
    /\ sandboxes[boxes[b].sessionId] # b
    /\ \E b2 \in DOMAIN boxes : b2 > b /\ boxes[b2].sessionId = boxes[b].sessionId

\* C22: duplicate session id.  createSandbox of a registered id does not
\* fail: it registers a new instance in place of the old one.  From then on
\* no destroySandbox or destroyAllSandboxes sends a signal to a process of
\* the old instance or touches the old instance's registry.
C22_DuplicateReplaces ==
    [][/\ \A k \in DOMAIN calls :
             (calls[k].op = "create" /\ calls[k].phase = "mkdir"
                 /\ calls'[k].phase # "mkdir") =>
                 /\ calls'[k].phase = "done"
                 /\ boxes' = Append(boxes, NewBox(calls[k].sid))
                 /\ sandboxes'[calls[k].sid] = Len(boxes')
       /\ \A i \in DOMAIN inv :
             Replaced(inv[i].box) =>
                 /\ inv'[i].sig => inv[i].sig
                 /\ processes'[inv[i].box] = processes[inv[i].box]]_vars

\* the first instance ran a command and was replaced; destroySandbox of the
\* session has completed for the second instance; the command still runs,
\* no signal was sent to it and the old instance still holds it
C22_OldCommandSurvives ==
    /\ Len(boxes) = 2 /\ boxes[2].sessionId = SidA
    /\ sandboxes[SidA] = 0
    /\ \E k \in DOMAIN calls :
          calls[k].op = "destroy" /\ calls[k].box = 2 /\ calls[k].phase = "done"
    /\ \E i \in DOMAIN inv :
          /\ inv[i].box = 1 /\ inv[i].os = "running" /\ ~inv[i].sig
          /\ i \in processes[1]

\* C29: destroySandbox removes only what it cleaned up.  When a
\* destroySandbox(id) completes and another instance was registered for id
\* while it waited in cleanup, that instance stays registered and its root
\* stays; and an instance that a destroySandbox takes out of the registry is
\* the one whose cleanup it ran.
C29_DestroyRemovesCleaned ==
    [][\A k \in DOMAIN calls :
          (/\ calls[k].op = "destroy"
           /\ calls[k].phase # "done" /\ calls'[k].phase = "done") =>
              LET b == sandboxes[calls[k].sid]
              IN  /\ (b # 0 /\ b # calls[k].box) =>
                         /\ sandboxes'[calls[k].sid] = b
                         /\ boxes[b].workDir \in dirs'
                  /\ \A x \in DOMAIN boxes :
                         (Registered(x) /\ sandboxes'[boxes[x].sessionId] # x) =>
                             x = calls[k].box]_vars

(***************************************************************************)
(* Claims about commands and teardown (checked under Spec)                 *)
(***************************************************************************)

\* C4: command whitelist.  executeCommand with a command outside ls, pwd,
\* echo, python, python3 fails with CommandBlocked and leaves the processes,
\* their timers and the registry as they were; every process ever spawned
\* has a command of the whitelist.
C4_CommandWhitelist ==
    /\ [](\A i \in 1..Len(inv) :
             inv[i].command \in {"ls", "pwd", "echo", "python", "python3"})
    /\ [][(/\ lastExec' # lastExec
           /\ lastExec'.command \notin {"ls", "pwd", "echo", "python", "python3"})
              => (/\ lastExec'.result = "CommandBlocked"
                  /\ UNCHANGED <<inv, processes>>)]_vars

\* a blocked rm while a process of the session is registered
C4_Blocked ==
    /\ lastExec = [command |-> "rm", result |-> "CommandBlocked"]
    /\ \E i \in 1..Len(inv) : i \in processes[inv[i].box]

\* C6: single terminal outcome.  The outcome of a call is Completed only
\* after exit code 0, Failed only after another exit, SpawnError only after a
\* failed spawn, TimedOut only after its timer; once an outcome is delivered
\* no later event changes it, and no event other than a call of
\* executeCommand spawns a process.
C6_SingleOutcome ==
    /\ [](\A i \in 1..Len(inv) :
             \/ inv[i].outcome = "pending"
             \/ inv[i].outcome = "Completed" /\ inv[i].os = "exit0"
             \/ inv[i].outcome = "Failed" /\ inv[i].os = "exit1"
             \/ inv[i].outcome = "SpawnError" /\ inv[i].os = "failed"
             \/ inv[i].outcome = "TimedOut" /\ ~inv[i].timer)
    /\ [][/\ \A i \in 1..Len(inv) :
               /\ i <= Len(inv')
               /\ inv'[i].command = inv[i].command
               /\ inv[i].outcome # "pending" => inv'[i].outcome = inv[i].outcome
           /\ Len(inv') > Len(inv) =>
                  /\ Len(inv') = Len(inv) + 1
                  /\ lastExec' = [command |-> inv'[Len(inv')].command,
                                  result |-> "spawned"]]_vars

\* the close event came after the call had timed out, and after the call had
\* failed to spawn
C6_LateEvents ==
    /\ \E i \in 1..Len(inv) : inv[i].outcome = "TimedOut" /\ inv[i].event = "close"
    /\ \E i \in 1..Len(inv) : inv[i].outcome = "SpawnError" /\ inv[i].event = "close"

\* C7: TimedOut ordering guarantee.  When a call has timed out its process
\* is no longer running (a signal sent is not enough) and its id is no
\* longer in the registry.
C7_TimedOutStopped ==
    \A i \in 1..Len(inv) :
        inv[i].outcome = "TimedOut" =>
            inv[i].os # "running" /\ i \notin processes[inv[i].box]

\* C8: deadline outcome.  A command still running when the session timeout
\* has passed ends with TimedOut, never with Failed or Completed.
C8_DeadlineTimedOut ==
    \A i \in 1..Len(inv) :
        inv[i].late => inv[i].outcome \in {"pending", "TimedOut"}

\* C9: process-registry invariant.  The registry holds the processes that are
\* running: an id in it has had neither its close nor its error event, and
\* every running process spawned by the session is in it.
C9_RegistryRunning ==
    \A i \in 1..Len(inv) :
        /\ i \in processes[inv[i].box] => inv[i].event = "none"
        /\ inv[i].os = "running" => i \in processes[inv[i].box]

\* C10: cleanup sends a kill to every process registered at the call and
\* empties the registry, then removes the session root; whether the removal
\* succeeds or fails, destroySandbox goes on and removes the session from
\* the manager.
C10_Cleanup ==
    /\ [][\A d \in destroys' \ destroys :
             /\ \A i \in processes[d.box] : inv[i].os = "running" => inv'[i].sig
             /\ processes'[d.box] = {}]_vars
    /\ [][\A d \in destroys \ destroys' :
             /\ sandboxes'[d.sid] = 0
             /\ \/ UNCHANGED <<dirs, files>>
                \/ /\ dirs' = FsRm(dirs, boxes[d.box].workDir)
                   /\ DOMAIN files' = FsRm(DOMAIN files, boxes[d.box].workDir)]_vars

\* the session is gone from the manager although its root could not be
\* removed, and its process, whose timers are yet to run, was sent the kill
C10_RemovalFailed ==
    /\ sandboxes[SidA] = 0
    /\ destroys = {}
    /\ RootA \in dirs
    /\ \E i \in 1..Len(inv) :
          /\ inv[i].os = "running" /\ inv[i].sig
          /\ inv[i].timer /\ inv[i].spawnTimer
          /\ processes[inv[i].box] = {}

\* C21: every executeCommand call returns.  With timers and process events
\* delivered, a call that spawned reaches one of its outcomes, also when
\* cleanup runs while the command is in flight and the process does not exit
\* on the signal sent to it.
C21_EveryCallReturns ==
    \A i \in 1..MaxInv :
        (i \in DOMAIN inv /\ inv[i].outcome = "pending")
            ~> (i \in DOMAIN inv /\ inv[i].outcome # "pending")

\* C23: spawn failure.  When the process of a whitelisted command cannot be
\* created the call fails with SpawnError and its id leaves the registry;
\* no signal is ever sent for it, and the timeout callback that runs later
\* changes neither the outcome nor the registry nor any process.
C23_SpawnFailure ==
    /\ [](\A i \in 1..Len(inv) :
             inv[i].os = "failed" =>
                 /\ inv[i].command \in AllowedCommands
                 /\ ~inv[i].sig
                 /\ inv[i].event = "none" => inv[i].outcome = "pending"
                 /\ inv[i].event # "none" =>
                        /\ inv[i].outcome = "SpawnError"
                        /\ i \notin processes[inv[i].box])
    /\ [][\A i \in 1..Len(inv) :
             (inv[i].os = "failed" /\ inv[i].timer /\ ~inv'[i].timer) =>
                 /\ inv[i].outcome = "SpawnError"
                 /\ inv' = [inv EXCEPT ![i].timer = FALSE]
                 /\ UNCHANGED processes]_vars

\* the spawn failed, the call ended SpawnError and both timers have run since
C23_TimerAfterSpawnError ==
    \E i \in 1..Len(inv) :
        /\ inv[i].os = "failed" /\ inv[i].outcome = "SpawnError"
        /\ ~inv[i].timer /\ ~inv[i].spawnTimer

C25_TimerCancelled ==
    \A i \in 1..Len(inv) :
        /\ inv[i].outcome \in {"Completed", "Failed", "SpawnError"} => ~inv[i].timer
        /\ inv[i].outcome = "TimedOut" => (inv[i].os = "running" => inv[i].sig)

(***************************************************************************)
(* FsSpec: the requests tried                                              *)
(***************************************************************************)

ReqTxt == <<"a", ".", "txt">>
ReqExe == <<"b", ".", "exe">>
ReqUpper == <<"C", ".", "PDF">>
ReqSub == <<"n", "/">> \o ReqTxt
ReqSibling == <<".", ".", "/">> \o DirPrefix \o SidB \o <<"/">> \o ReqTxt
ReqTraversal == <<".", ".", "/", ".", ".">> \o EtcPasswd
ReqAbsolute == EtcPasswd
ReqLinkRead == LinkName \o <<"/", "passwd">>
ReqLinkWrite == LinkName \o <<"/">> \o ReqTxt
ReqMissing == <<"m", ".", "txt">>

Requests ==
    { ReqTxt, ReqExe, ReqUpper, ReqSub, ReqSibling, ReqTraversal, ReqAbsolute,
      ReqLinkRead, ReqLinkWrite }

DestPdf == <<"f", ".", "pdf">>

CopyDests ==
    { <<"n", "/">> \o DestPdf,
      <<".", ".", "/">> \o DirPrefix \o SidB \o <<"/">> \o DestPdf,
      <<".", ".", "/", ".", ".">> \o EtcDir \o <<"/">> \o DestPdf }

\* the longest list given to copyFiles
MaxCopy == 2

\* the number of file operations followed
MaxFsOps == 2

CopyLists ==
    UNION {[1..n -> {[source |-> HostFile, destination |-> d] : d \in CopyDests}] :
              n \in 1..MaxCopy}

FsInit ==
    /\ dirs = {<<Slash>>, TmpDir, RootA, RootB, EtcDir, HostDir}
    /\ files = (EtcPasswd :> "secret") @@ (HostFile :> "pdf")
                 @@ ((RootB \o <<Slash>> \o ReqTxt) :> "other")
    /\ links = {}
    /\ fsLast = NoOp
    /\ fsOps = 0
    /\ boxes = <<NewBox(SidA), NewBox(SidB)>>
    /\ sandboxes = (SidA :> 1) @@ (SidB :> 2)
    /\ processes = [b \in BoxIds |-> {}]
    /\ inv = <<>>
    /\ destroys = {}
    /\ lastExec = NoExec
    /\ order = <<SidA, SidB>>
    /\ calls = <<>>

FsCount == fsOps < MaxFsOps /\ fsOps' = fsOps + 1 /\ UNCHANGED procVars

FsRead1 == FsCount /\ \E p \in Requests : ReadFile(SidA, p)
FsWrite1 == FsCount /\ \E p \in Requests : \E c \in {"x", "y"} : WriteFile(SidA, p, c)
FsCopy1 == FsCount /\ \E l \in CopyLists : CopyFiles(SidA, l)

FsNext == FsRead1 \/ FsWrite1 \/ FsCopy1 \/ PlantSymlink

FsSpec == FsInit /\ [][FsNext]_vars

(***************************************************************************)
(* RwSpec: readFile while writeFile is in progress.  fs.writeFile opens    *)
(* the file with flag 'w', which truncates it, and then writes the data    *)
(* block by block; fs.readFile opens the file and reads block by block     *)
(* to the end.  A content is a sequence of blocks here.                    *)
(***************************************************************************)

\* what the file holds before the write
OldBlocks == <<"o1", "o2">>

\* the readFile calls followed, next to one writeFile
MaxReads == 2

RwInit ==
    /\ dirs = {<<Slash>>, TmpDir, EtcDir, HostDir, RootA}
    /\ files = ((RootA \o <<Slash>> \o ReqTxt) :> OldBlocks)
                 @@ (EtcPasswd :> <<"secret">>)
    /\ links = {}
    /\ fsLast = NoOp
    /\ fsOps = 0
    /\ boxes = <<NewBox(SidA)>>
    /\ sandboxes = [sid \in Sids |-> IF sid = SidA THEN 1 ELSE 0]
    /\ processes = [b \in BoxIds |-> {}]
    /\ inv = <<>>
    /\ destroys = {}
    /\ lastExec = NoExec
    /\ order = <<SidA>>
    /\ calls = <<>>

RwFrame == UNCHANGED <<dirs, links, fsLast, fsOps, boxes, sandboxes, processes,
                       inv, destroys, lastExec, order>>

\* SecureSandbox.writeFile up to the await of fs.writeFile
WriteFileStart(sid, filePath, content) ==
    LET workDir == WorkDirOf(sid)
        fullPath == Join(workDir, filePath)
        ext == ToLowerCase(Extname(filePath))
        call == [op |-> "write", full |-> fullPath, data |-> content, pos |-> 0,
                 buf |-> <<>>, phase |-> "open", result |-> "pending"]
    IN  /\ \A k \in DOMAIN calls : calls[k].op # "write"
        /\ calls' = Append(calls,
              IF ~ValidatePath(workDir, fullPath)
              THEN [call EXCEPT !.phase = "done", !.result = "AccessDenied"]
              ELSE IF ext \notin AllowedExtensions
              THEN [call EXCEPT !.phase = "done", !.result = "TypeNotAllowed"]
              ELSE call)
        /\ UNCHANGED files
        /\ RwFrame

\* fs.writeFile: open(fullPath, 'w') creates the file or truncates it
WriteFileOpen(k) ==
    LET w == FsWrite(files, dirs, calls[k].full, <<>>)
    IN  /\ calls[k].op = "write" /\ calls[k].phase = "open"
        /\ files' = w.files
        /\ calls' = [calls EXCEPT ![k].phase =
                        IF w.result # "ok" \/ calls[k].data = <<>> THEN "done" ELSE "write",
                                  ![k].result =
                        IF w.result # "ok" THEN w.result
                        ELSE IF calls[k].data = <<>> THEN "ok" ELSE "pending"]
        /\ RwFrame

\* fs.writeFile: the next block is written at the end of what was written
WriteFileBlock(k) ==
    LET c == calls[k]
        real == RealPath(c.full)
        last == c.pos + 1 = Len(c.data)
    IN  /\ c.op = "write" /\ c.phase = "write"
        /\ files' = [files EXCEPT ![real] = SubSeq(c.data, 1, c.pos + 1)]
        /\ calls' = [calls EXCEPT ![k].pos = c.pos + 1,
                                  ![k].phase = IF last THEN "done" ELSE "write",
                                  ![k].result = IF last THEN "ok" ELSE "pending"]
        /\ RwFrame

\* SecureSandbox.readFile up to the await of fs.readFile
ReadFileStart(sid, filePath) ==
    LET workDir == WorkDirOf(sid)
        fullPath == Join(workDir, filePath)
        call == [op |-> "read", full |-> fullPath, data |-> <<>>, pos |-> 0,
                 buf |-> <<>>, phase |-> "open", result |-> "pending"]
    IN  /\ Cardinality({k \in DOMAIN calls : calls[k].op = "read"}) < MaxReads
        /\ calls' = Append(calls,
              IF ~ValidatePath(workDir, fullPath)
              THEN [call EXCEPT !.phase = "done", !.result = "AccessDenied"]
              ELSE call)
        /\ UNCHANGED files
        /\ RwFrame

\* fs.readFile: the file is opened
ReadFileOpen(k) ==
    LET r == FsRead(calls[k].full)
    IN  /\ calls[k].op = "read" /\ calls[k].phase = "open"
        /\ calls' = [calls EXCEPT ![k].phase = IF r.result = "ok" THEN "read" ELSE "done",
                                  ![k].result = IF r.result = "ok" THEN "pending"
                                                ELSE r.result]
        /\ UNCHANGED files
        /\ RwFrame

\* fs.readFile: the next block is read, or the end of the file is found and
\* the blocks read are returned
ReadFileBlock(k) ==
    LET c == calls[k]
        f == files[RealPath(c.full)]
    IN  /\ c.op = "read" /\ c.phase = "read"
        /\ calls' = IF c.pos < Len(f)
                    THEN [calls EXCEPT ![k].pos = c.pos + 1,
                                       ![k].buf = Append(c.buf, f[c.pos + 1])]
                    ELSE [calls EXCEPT ![k].phase = "done", ![k].result = "ok"]
        /\ UNCHANGED files
        /\ RwFrame

RwWrite == \E p \in {ReqTxt, ReqMissing, ReqExe, ReqTraversal} :
               \E c \in { <<"n1", "n2">>, <<"n1">>, <<>> } : WriteFileStart(SidA, p, c)
RwWriteOpen == \E k \in DOMAIN calls : WriteFileOpen(k)
RwWriteBlock == \E k \in DOMAIN calls : WriteFileBlock(k)
RwRead == \E p \in {ReqTxt, ReqMissing, ReqExe, ReqTraversal} :
              ReadFileStart(SidA, p)
RwReadOpen == \E k \in DOMAIN calls : ReadFileOpen(k)
RwReadBlock == \E k \in DOMAIN calls : ReadFileBlock(k)

RwNext ==
    \/ RwWrite \/ RwWriteOpen \/ RwWriteBlock
    \/ RwRead \/ RwReadOpen \/ RwReadBlock

RwSpec == RwInit /\ [][RwNext]_vars

\* C26: atomic whole-file writes.  A readFile of a file that runs while a
\* writeFile of the same file is in progress, or before or after it, returns
\* what the file held before the write or what the write was given, never
\* an empty or partial mixture.
C26_AtomicWrite ==
    \A r \in DOMAIN calls : \A w \in DOMAIN calls :
        (/\ calls[r].op = "read" /\ calls[r].result = "ok"
         /\ calls[w].op = "write" /\ calls[w].full = calls[r].full
         /\ calls[r].full = RootA \o <<Slash>> \o ReqTxt)
            => calls[r].buf \in {OldBlocks, calls[w].data}

(***************************************************************************)
(* EditSpec: the edits tried                                               *)
(***************************************************************************)

\* the contents of the files before the edit
Texts == { <<"a", "b", "a", "b">>, <<"a", "a">>, <<"b", "$">> }

\* oldContent and newContent arguments
Olds == { <<"a">>, <<"a", "b">>, <<"c">>, <<>> }
News == { <<"x">>, <<"a", "a">>, <<"$", "&">>, <<"$", "$">>, <<"$", "1">> }

EditPaths == {ReqTxt, ReqExe, ReqMissing, ReqTraversal}

\* the edits followed
MaxEdits == 1

\* a session root holding a.txt and b.exe (a file a command put there)
EditInit ==
    /\ dirs = {<<Slash>>, TmpDir, EtcDir, HostDir, RootA}
    /\ \E c \in Texts : \E d \in Texts :
          files = ((RootA \o <<Slash>> \o ReqTxt) :> c)
                    @@ ((RootA \o <<Slash>> \o ReqExe) :> d)
    /\ links = {}
    /\ fsLast = NoOp
    /\ fsOps = 0
    /\ boxes = <<NewBox(SidA)>>
    /\ sandboxes = [sid \in Sids |-> IF sid = SidA THEN 1 ELSE 0]
    /\ processes = [b \in BoxIds |-> {}]
    /\ inv = <<>>
    /\ destroys = {}
    /\ lastExec = NoExec
    /\ order = <<SidA>>
    /\ calls = <<>>

Edit ==
    /\ fsOps < MaxEdits
    /\ fsOps' = fsOps + 1
    /\ \E p \in EditPaths : \E o \in Olds : \E n \in News : HandleEdit(SidA, p, o, n)
    /\ UNCHANGED procVars

EditNext == Edit

EditSpec == EditInit /\ [][EditNext]_vars

(***************************************************************************)
(* Claims about handleEdit (checked under EditSpec)                        *)
(***************************************************************************)

\* C16: edit replaces the first occurrence only.  For a file content c and
\* an oldContent o that occurs in c, the edit succeeds and leaves the file
\* holding prefix + newContent + suffix, prefix being the part of c before
\* the first occurrence of o and suffix the part after it, whatever
\* characters newContent has.
C16_EditFirstOccurrence ==
    LET c == fsLast.before
        o == fsLast.old
        occurs == {i \in 1..(Len(c) - Len(o) + 1) : SubSeq(c, i, i + Len(o) - 1) = o}
        first == CHOOSE i \in occurs : \A j \in occurs : i <= j
    IN  (/\ fsLast.op = "edit"
         /\ fsLast.result \in {"ok", "ContentNotFound"}
         /\ occurs # {})
            => /\ fsLast.result = "ok"
               /\ files[fsLast.full] =
                      SubSeq(c, 1, first - 1) \o fsLast.new
                          \o SubSeq(c, first + Len(o), Len(c))

\* C17: a failed edit leaves the file unchanged.  An edit ends ok,
\* ContentNotFound, AccessDenied, NotFound or TypeNotAllowed;
\* ContentNotFound when oldContent does not occur in the content read, and
\* only then; and an edit that does not end ok changes no file.
C17_FailedEditUnchanged ==
    [][fsLast'.op = "edit" /\ fsOps' # fsOps =>
          LET e == fsLast'
              occurs == \E i \in 1..(Len(e.before) - Len(e.old) + 1) :
                            SubSeq(e.before, i, i + Len(e.old) - 1) = e.old
          IN  /\ e.result \in {"ok", "ContentNotFound", "AccessDenied",
                                "NotFound", "TypeNotAllowed"}
              /\ e.result # "ok" => UNCHANGED <<files, dirs, links>>
              /\ e.result \in {"ok", "ContentNotFound", "TypeNotAllowed"} =>
                     /\ e.full \in DOMAIN files
                     /\ e.before = files[e.full]
              /\ e.result \in {"ok", "TypeNotAllowed"} => occurs
              /\ e.result = "ContentNotFound" => ~occurs]_vars

\* an edit of b.exe whose oldContent was found ended TypeNotAllowed, and
\* b.exe holds what it held
C17_NotWritable ==
    /\ fsLast.op = "edit"
    /\ fsLast.req = ReqExe
    /\ fsLast.result = "TypeNotAllowed"
    /\ fsLast.old = <<"a">>
    /\ files[fsLast.full] = fsLast.before

(***************************************************************************)
(* ToolSpec: the 'secure-tool' requests (setupSecureTools) next to         *)
(* destroySandbox.  handleEdit is followed from its await of readFile to   *)
(* its writeFile.                                                          *)
(***************************************************************************)

\* request.tool: the four verbs
Verbs == {"bash", "read", "write", "edit"}

\* the read, write and refused requests followed
MaxTools == 1

\* the session s1 with a file in its root, and a directory beside the root
\* whose name begins with the root's name
ToolInit ==
    /\ dirs = {<<Slash>>, TmpDir, EtcDir, HostDir, RootA, RootB}
    /\ files = ((RootA \o <<Slash>> \o ReqTxt) :> <<"a", "b">>)
                 @@ ((RootB \o <<Slash>> \o ReqTxt) :> <<"a">>)
    /\ links = {}
    /\ fsLast = NoOp
    /\ fsOps = 0
    /\ boxes = <<NewBox(SidA)>>
    /\ sandboxes = [sid \in Sids |-> IF sid = SidA THEN 1 ELSE 0]
    /\ processes = [b \in BoxIds |-> {}]
    /\ inv = <<>>
    /\ destroys = {}
    /\ lastExec = NoExec
    /\ order = <<SidA>>
    /\ calls = <<>>

\* the handler of 'secure-tool' when getSandbox finds no sandbox, or when
\* the tool is none of the verbs
ToolRefused(sid, tool, filePath) ==
    /\ sandboxes[sid] = 0 \/ tool \notin Verbs
    /\ fsOps < MaxTools /\ fsOps' = fsOps + 1
    /\ fsLast' = [NoOp EXCEPT !.op = tool, !.sid = sid, !.req = filePath,
                              !.result = IF sandboxes[sid] = 0 THEN "InvalidSession"
                                         ELSE "UnknownTool"]
    /\ UNCHANGED <<files, dirs, links, procVars>>

\* case 'bash': handleBash
ToolBash(sid) ==
    /\ sandboxes[sid] # 0
    /\ ExecuteCommand(sandboxes[sid], "python3", TRUE, HostEnv0)

\* case 'read': handleRead
ToolRead(sid, filePath) ==
    /\ sandboxes[sid] # 0
    /\ fsOps < MaxTools /\ fsOps' = fsOps + 1
    /\ ReadFile(sid, filePath)
    /\ UNCHANGED procVars

\* case 'write': handleWrite
ToolWrite(sid, filePath, content) ==
    /\ sandboxes[sid] # 0
    /\ fsOps < MaxTools /\ fsOps' = fsOps + 1
    /\ WriteFile(sid, filePath, content)
    /\ UNCHANGED procVars

\* case 'edit': handleEdit up to the end of its readFile
ToolEdit(sid, filePath, oldContent, newContent) ==
    LET r == ReadOutcome(sid, filePath)
    IN  /\ sandboxes[sid] # 0
        /\ Len(calls) < MaxCalls
        /\ calls' = Append(calls,
              [op |-> "edit", sid |-> sid, box |-> sandboxes[sid], pos |-> 0,
               phase |-> IF r.result = "ok" THEN "read" ELSE "done",
               req |-> filePath, old |-> oldContent, new |-> newContent,
               before |-> r.content])
        /\ fsLast' = [r EXCEPT !.op = "edit", !.old = oldContent, !.new = newContent,
                               !.content = <<>>,
                               !.result = IF r.result = "ok" THEN "pending" ELSE r.result]
        /\ UNCHANGED <<files, dirs, links, fsOps, boxes, sandboxes, processes, inv,
                       destroys, lastExec, order>>

\* handleEdit after readFile: includes, replace and writeFile, on the
\* sandbox the request obtained at its start
ToolEditWrite(k) ==
    LET c == calls[k]
        updatedContent == StringReplace(c.before, c.old, c.new)
        w == WriteOutcome(c.sid, c.req, updatedContent)
        call == [NoOp EXCEPT !.op = "edit", !.sid = c.sid, !.req = c.req,
                             !.old = c.old, !.new = c.new, !.before = c.before]
    IN  /\ c.op = "edit" /\ c.phase = "read"
        /\ calls' = [calls EXCEPT ![k].phase = "done"]
        /\ IF ~Includes(c.before, c.old)
           THEN /\ fsLast' = [call EXCEPT !.result = "ContentNotFound"]
                /\ UNCHANGED files
           ELSE /\ fsLast' = [call EXCEPT !.result = w.last.result,
                                          !.full = w.last.full,
                                          !.content = updatedContent,
                                          !.touched = w.last.touched,
                                          !.accessed = w.last.accessed,
                                          !.changed = w.last.changed]
                /\ files' = w.files
        /\ UNCHANGED <<dirs, links, fsOps, boxes, sandboxes, processes, inv,
                       destroys, lastExec, order>>

Refused == \E sid \in Sids : \E tool \in Verbs \cup {"exec"} :
               ToolRefused(sid, tool, ReqTxt)
Bash == \E sid \in Sids : ToolBash(sid)
Read == \E sid \in Sids : \E p \in {ReqTxt, ReqSibling} : ToolRead(sid, p)
Write == \E sid \in Sids : \E p \in {ReqTxt, ReqSibling} : ToolWrite(sid, p, <<"y">>)
EditRead == \E sid \in Sids : \E p \in {ReqTxt, ReqSibling} :
                \E o \in { <<"a">>, <<"c">> } : ToolEdit(sid, p, o, <<"x">>)
EditWrite == \E k \in DOMAIN calls : ToolEditWrite(k)

ToolNext ==
    \/ Refused \/ Bash \/ Read \/ Write \/ EditRead \/ EditWrite
    \/ DestroyOne \/ Removed \/ DestroyedOne

ToolSpec == ToolInit /\ [][ToolNext]_vars

\* C28: tool requests need a live session.  A request for a session that is
\* not registered fails with 'Invalid session', and one whose tool is none
\* of bash, read, write, edit with 'Unknown tool', and neither touches a
\* file or a process.  Once destroySandbox(id) has completed no request
\* naming id changes a file or spawns a process, the requests that obtained
\* their sandbox before the destroy included.
C28_LiveSession ==
    [][/\ (fsOps' # fsOps
             /\ (sandboxes[fsLast'.sid] = 0 \/ fsLast'.op \notin Verbs)) =>
              /\ fsLast'.result = IF sandboxes[fsLast'.sid] = 0
                                  THEN "InvalidSession" ELSE "UnknownTool"
              /\ ~fsLast'.accessed
              /\ UNCHANGED <<files, dirs, links, inv, processes>>
       /\ \A sid \in Sids :
             (/\ sandboxes[sid] = 0
              /\ \E d \in DOMAIN calls :
                    /\ calls[d].op = "destroy" /\ calls[d].sid = sid
                    /\ calls[d].box # 0 /\ calls[d].phase = "done"
              /\ \/ fsOps' # fsOps /\ fsLast'.sid = sid
                 \/ \E k \in DOMAIN calls :
                       /\ calls[k].op = "edit" /\ calls[k].sid = sid
                       /\ calls[k].phase = "read" /\ calls'[k].phase = "done"
                 \/ Len(inv') > Len(inv)
                       /\ boxes[inv'[Len(inv')].box].sessionId = sid)
                => UNCHANGED <<files, dirs, inv, processes>>]_vars

(***************************************************************************)
(* Claims about the file operations (checked under FsSpec)                 *)
(***************************************************************************)

LastRoot == WorkDirOf(fsLast.sid)

\* the destinations copyFiles went through: the pairs copied and, when the
\* call stopped at one, that one
CopyReached ==
    {Join(LastRoot, fsLast.req[i].destination) :
        i \in 1..(IF fsLast.copied < Len(fsLast.req)
                  THEN fsLast.copied + 1 ELSE fsLast.copied)}

\* C1: path containment.  A read, write or copy touches the filesystem only
\* for a path that, joined to the session root and normalized, is the root
\* or below it by whole segments; every other path is denied.
C1_PathContainment ==
    /\ fsLast.op \in {"read", "write"} =>
          (~SegInside(LastRoot, fsLast.full) =>
               fsLast.result = "AccessDenied" /\ ~fsLast.accessed)
    /\ fsLast.op = "copy" =>
          \A d \in CopyReached :
              ~SegInside(LastRoot, d) =>
                  fsLast.result = "AccessDenied" /\ ~fsLast.changed

\* C2: symlink resistance.  A path that goes through a symlink inside the
\* root whose target is outside the root is denied.
C2_SymlinkDenied ==
    fsLast.viaLink => fsLast.result = "AccessDenied" /\ ~fsLast.accessed

\* C3: readFile of an absolute path that names a location outside the root
\* fails with AccessDenied: it is not re-rooted and is not reported NotFound.
C3_AbsoluteReadDenied ==
    (/\ fsLast.op = "read"
     /\ IsAbsolute(fsLast.req)
     /\ ~SegInside(LastRoot, Normalize(fsLast.req)))
        => fsLast.result = "AccessDenied"

\* C5: write-extension whitelist.  writeFile of a path inside the root writes
\* the file if and only if its extension (letter case aside) is one of .pdf,
\* .json, .txt, .py, .log; otherwise it fails with TypeNotAllowed and nothing
\* in the root is created or modified.
C5_WriteExtension ==
    (fsLast.op = "write" /\ SegInside(LastRoot, fsLast.full)) =>
        LET allowed == ToLowerCase(Extname(fsLast.req)) \in AllowedExtensions
            real == RealPath(fsLast.full)
        IN  /\ allowed =>
                 /\ fsLast.result = "ok"
                 /\ real \in DOMAIN files
                 /\ files[real] = fsLast.content
            /\ ~allowed => fsLast.result = "TypeNotAllowed" /\ ~fsLast.changed

\* C18: write/read round trip.  writeFile of a path inside the root with an
\* allowed extension succeeds, whether or not the file or its directory
\* exists, and a readFile of the same path that follows it returns the
\* content written.
C18_WriteReadRoundTrip ==
    [][(/\ fsOps' # fsOps
        /\ fsLast.op = "write"
        /\ SegInside(LastRoot, fsLast.full)
        /\ ~fsLast.viaLink
        /\ ToLowerCase(Extname(fsLast.req)) \in AllowedExtensions
        /\ fsLast'.op = "read"
        /\ fsLast'.req = fsLast.req)
           => /\ fsLast.result = "ok"
              /\ fsLast'.result = "ok"
              /\ fsLast'.content = fsLast.content]_vars

\* C19: copyFiles fails fast and rolls nothing back.  When the k-th
\* destination of the list is the first one outside the root, the call ends
\* AccessDenied with k-1 pairs copied: the first k-1 destinations hold their
\* sources' content, and no other file is created or modified.
C19_CopyFailFast ==
    [][(fsOps' # fsOps /\ fsLast'.op = "copy") =>
          LET list == fsLast'.req
              root == WorkDirOf(fsLast'.sid)
              dest(i) == Join(root, list[i].destination)
              outside == {i \in 1..Len(list) : ~SegInside(root, dest(i))}
              k == CHOOSE i \in outside : \A j \in outside : i <= j
              done == {dest(i) : i \in 1..(k - 1)}
          IN  outside # {} =>
                 /\ fsLast'.result = "AccessDenied"
                 /\ fsLast'.copied = k - 1
                 /\ \A i \in 1..(k - 1) :
                       /\ dest(i) \in DOMAIN files'
                       /\ files'[dest(i)] = files[list[i].source]
                 /\ \A q \in (DOMAIN files \cup DOMAIN files') \ done :
                       /\ q \in DOMAIN files /\ q \in DOMAIN files'
                       /\ files'[q] = files[q]]_vars

\* C20: security audit events.  A readFile, writeFile or copyFiles that ends
\* AccessDenied has logged exactly one security event before it throws, and
\* one that ends otherwise has logged none.
C20_AuditEvents ==
    fsLast.op \in {"read", "write", "copy"} =>
        fsLast.audit = (IF fsLast.result = "AccessDenied" THEN 1 ELSE 0)

\* C30: cross-session isolation.  With the sessions s1 and s1e registered,
\* the root of the first a string prefix of the root of the second, no
\* readFile, writeFile or copyFiles of s1 reads or changes a path under the
\* root of s1e.
C30_SessionIsolation ==
    (fsLast.op \in {"read", "write", "copy"} /\ fsLast.sid = SidA) =>
        /\ sandboxes[SidA] # 0 /\ sandboxes[SidB] # 0
        /\ StartsWith(RootB, RootA)
        /\ \A t \in fsLast.touched : ~SegInside(RootB, t)

====
